---------------------------- MODULE Spec2Model ----------------------------
(***************************************************************************)
(* A model of src/sqlUtil.js (class SqlUtil): the pagination arithmetic,   *)
(* the condition translation, the paginated fetch, the four mutating calls *)
(* and the field projection.  One call of the singleton is followed from   *)
(* its invocation to the settlement of the promise it returns.             *)
(***************************************************************************)
EXTENDS Integers, Sequences, FiniteSets, TLC

VARIABLES
  op,       \* the method being called, "idle" before the call
  pc,       \* the position of the call
  inp,      \* the arguments of the call
  local,    \* the local constants of the call bound so far
  calls,    \* the Data Store Client events of the call, in order
  logged,   \* the console.error lines of the call
  outcome   \* how the call settled: none, returned, thrown

vars == <<op, pc, inp, local, calls, logged, outcome>>

(***************************************************************************)
(* Bounds of the model.                                                    *)
(***************************************************************************)
MaxPage == 3
MaxSize == 10
MaxTotal == 4
MaxListLen == 3
MaxAddrLen == 2

(***************************************************************************)
(* JavaScript values, tagged by kind.                                      *)
(***************************************************************************)
\* Each kind keeps its payload in a field of its own name, so that values of
\* two kinds are unequal and never compared payload to payload.
Undefined == [k |-> "undefined", u |-> 0]
Null == [k |-> "null", u |-> 0]
NaN == [k |-> "NaN", u |-> 0]
PosInfinity == [k |-> "Infinity", u |-> 0]
NegInfinity == [k |-> "-Infinity", u |-> 0]
Num(n) == [k |-> "number", n |-> n]
Str(s) == [k |-> "string", s |-> s]
Bool(b) == [k |-> "boolean", b |-> b]
Arr(s) == [k |-> "array", items |-> s]
Obj(f) == [k |-> "object", props |-> f]
DateOf(ms) == [k |-> "Date", ms |-> ms]
Fn(name) == [k |-> "function", name |-> name]
Err(name) == [k |-> "error", from |-> name]

EmptyObj == Obj([x \in {} |-> Undefined])

\* ToBoolean
Truthy(x) ==
  CASE x.k \in {"undefined", "null", "NaN"} -> FALSE
    [] x.k = "number" -> x.n # 0
    [] x.k = "string" -> x.s # ""
    [] x.k = "boolean" -> x.b
    [] OTHER -> TRUE

\* ToNumber of the values a page number or a page size takes here
ToNumber(x) ==
  CASE x.k = "number" -> x
    [] x.k = "null" -> Num(0)
    [] OTHER -> NaN

\* obj[key] of an object value; a property a primitive does not have is undefined
Get(o, key) ==
  IF o.k = "object" /\ key \in DOMAIN o.props THEN o.props[key] ELSE Undefined

HasKey(o, key) == o.k = "object" /\ key \in DOMAIN o.props

\* obj[key] = val
Put(o, key, val) == Obj((key :> val) @@ o.props)

\* delete obj[key]
Delete(o, key) == Obj([x \in (DOMAIN o.props) \ {key} |-> o.props[x]])

\* a / b of two numbers, then Math.ceil
CeilQuotient(a, b) ==
  IF a.k # "number" \/ b.k # "number" THEN NaN
  ELSE IF b.n = 0
    THEN (IF a.n = 0 THEN NaN ELSE IF a.n > 0 THEN PosInfinity ELSE NegInfinity)
  ELSE IF b.n > 0 THEN Num(-((-a.n) \div b.n))
  ELSE Num(-(a.n \div (-b.n)))

Returned(x) == [kind |-> "returned", value |-> x]
Thrown(e) == [kind |-> "thrown", value |-> e]
NoOutcome == [kind |-> "none", value |-> Undefined]

(***************************************************************************)
(* getPagination                                                           *)
(***************************************************************************)
DefaultPage == 1
DefaultLimit == 20

\* the offset computed as page * limit
getPaginationSkipsWholePage(pageNumber, pageSize) ==
  LET page == IF Truthy(pageNumber) THEN pageNumber ELSE Num(DefaultPage)
      limit == IF Truthy(pageSize) THEN pageSize ELSE Num(DefaultLimit)
  IN [take |-> limit, skip |-> Num(page.n * limit.n)]

getPagination(pageNumber, pageSize) ==
  LET page == IF Truthy(pageNumber) THEN pageNumber ELSE Num(DefaultPage)
      limit == IF Truthy(pageSize) THEN pageSize ELSE Num(DefaultLimit)
      skip == Num((page.n - 1) * limit.n)
      take == limit
  IN [take |-> take, skip |-> skip]

PageNumbers == {Undefined, Null} \cup {Num(n) : n \in -1..MaxPage}
PageSizes == {Undefined, Null} \cup {Num(n) : n \in -1..MaxSize}

(***************************************************************************)
(* removeNullValues and handleConditions                                   *)
(***************************************************************************)
\* Object.keys(obj) of a number or a boolean is empty; of null or undefined it
\* throws (handleConditions checks that before it calls this).
removeNullValues(obj) ==
  IF obj.k = "object"
    THEN Obj([x \in {y \in DOMAIN obj.props : obj.props[y] # Null} |-> obj.props[x]])
    ELSE EmptyObj

\* value[i], zero-based; undefined past the end
Index(value, i) ==
  IF i < Len(value.items) THEN value.items[i + 1] ELSE Undefined

PathCountry(key, param) ==
  Obj(key :> Obj(("path" :> Arr(<<Str("country")>>))
                 @@ ("equals" :> Get(param, "country"))))

EqualsAll(key, result) == Obj(key :> Obj("equals" :> result))

\* the test of line 187 without its !param.city
addressClauseIgnoresCity(key, param) ==
  LET result == removeNullValues(param)
  IN IF Truthy(Get(param, "country")) /\ ~Truthy(Get(param, "province"))
       THEN PathCountry(key, param)
       ELSE EqualsAll(key, result)

\* the callback of value.map, lines 185-200
addressClause(key, param) ==
  LET result == removeNullValues(param)
  IN IF /\ Truthy(Get(param, "country"))
        /\ ~Truthy(Get(param, "province"))
        /\ ~Truthy(Get(param, "city"))
       THEN PathCountry(key, param)
       ELSE EqualsAll(key, result)

\* value.map(...) throws a TypeError when value has no map method, and the
\* callback throws one when Object.keys or param.country meets null or undefined.
addressThrows(value) ==
  \/ value.k # "array"
  \/ \E i \in 1..Len(value.items) : value.items[i].k \in {"null", "undefined"}

addressList(key, value) ==
  Arr([i \in 1..Len(value.items) |-> addressClause(key, value.items[i])])

\* lines 201-226: the clause of a key that is no address field
fieldClause(key, value, cats) ==
  IF value.k = "array"
    THEN IF key \in cats.rangeField
           THEN Obj(("gte" :> Index(value, 0)) @@ ("lte" :> Index(value, 1)))
         ELSE IF key \in cats.logicAndListField
           THEN Obj("hasEvery" :> value)
         ELSE IF key \in cats.ListField
           THEN Obj("hasSome" :> value)
         ELSE Obj("in" :> value)
    ELSE IF key \in cats.searchField
           THEN Obj("contains" :> value)
           ELSE Obj("equals" :> value)

\* The loop of lines 180-228 from entry i on.  conditions is the sequence of
\* the own enumerable properties of the condition map in enumeration order;
\* inherited ones are skipped by the guard of line 181.
RECURSIVE translateFrom(_, _, _, _)
translateFrom(conditions, i, where, cats) ==
  IF i > Len(conditions) THEN Returned(where)
  ELSE LET key == conditions[i].key
           value == conditions[i].value
       IN IF key \in cats.addressField
            THEN IF addressThrows(value)
                   THEN Thrown(Err("TypeError"))
                   ELSE translateFrom(conditions, i + 1,
                                      Put(where, "OR", addressList(key, value)), cats)
            ELSE translateFrom(conditions, i + 1,
                               Put(where, key, fieldClause(key, value, cats)), cats)

handleConditions(conditions, rangeField, ListField, addressField, logicAndListField, searchField) ==
  translateFrom(conditions, 1, EmptyObj,
                [rangeField |-> rangeField, ListField |-> ListField,
                 addressField |-> addressField,
                 logicAndListField |-> logicAndListField,
                 searchField |-> searchField])

(***************************************************************************)
(* toSQLDateTime and transformData                                         *)
(***************************************************************************)
InvalidDate == [k |-> "InvalidDate", u |-> 0]

\* Date.parse on the strings of the model: milliseconds since the epoch, or NaN
DateParse(s) ==
  CASE s = "1970-01-01T00:00:01.000Z" -> Num(1000)
    [] s = "1970-01-02T00:00:00.000Z" -> Num(86400000)
    [] OTHER -> NaN

toSQLDateTime(input) ==
  IF input.k = "string"
    THEN LET timestamp == DateParse(input.s)
         IN IF timestamp.k # "NaN" THEN DateOf(timestamp.n) ELSE Null
  ELSE IF input.k = "object" /\ "_seconds" \in DOMAIN input.props
    THEN LET seconds == input.props["_seconds"]
         IN IF seconds.k = "number" THEN DateOf(seconds.n * 1000) ELSE InvalidDate
  ELSE Null

\* one pass of the loop body, lines 263-275
transformKey(result, key, dateFields, allFields) ==
  LET r1 == IF key \notin allFields THEN Delete(result, key) ELSE result
      val == Get(r1, key)
      r2 == IF val = Null \/ val = Undefined THEN Delete(r1, key) ELSE r1
  IN IF key \in dateFields
       THEN Put(r2, key, toSQLDateTime(Get(r2, key)))
       ELSE r2

\* the for-in loop over the keys the copy had when the loop began
RECURSIVE transformLoop(_, _, _, _)
transformLoop(result, keys, dateFields, allFields) ==
  IF keys = {} THEN result
  ELSE LET key == CHOOSE x \in keys : TRUE
       IN transformLoop(transformKey(result, key, dateFields, allFields),
                        keys \ {key}, dateFields, allFields)

\* options is undefined or {dateFields?, allFields?}; a missing list is []
transformData(data, options) ==
  LET dateFields == IF options.k = "options" /\ options.dateFields.given
                      THEN options.dateFields.set ELSE {}
      allFields == IF options.k = "options" /\ options.allFields.given
                     THEN options.allFields.set ELSE {}
      result == IF data.k = "object" THEN data ELSE EmptyObj
  IN transformLoop(result, DOMAIN result.props, dateFields, allFields)

(***************************************************************************)
(* The Data Store Client: every call on it is an invoke event, and its     *)
(* promise settles later with a resolve or a reject event.                 *)
(***************************************************************************)
Invoke(fn, arg) == [ev |-> "invoke", fn |-> fn, arg |-> arg]
Resolve(fn, val) == [ev |-> "resolve", fn |-> fn, arg |-> val]
Reject(fn) == [ev |-> "reject", fn |-> fn, arg |-> Err(fn)]

Settled(ok, fn, val) == IF ok THEN Resolve(fn, val) ELSE Reject(fn)

(***************************************************************************)
(* createData, batchCreateData, deleteData, updateFields                   *)
(***************************************************************************)
MutatingOps == {"createData", "batchCreateData", "deleteData", "updateFields"}

\* the method of the collection each mutating call awaits
storeFn(o) ==
  CASE o = "createData" -> "create"
    [] o = "batchCreateData" -> "createMany"
    [] o = "deleteData" -> "delete"
    [] o = "updateFields" -> "updateMany"

\* What runs between the settlement of the store promise and the next await:
\* the return or the catch block, then the finally block up to its await.
\*   pending: the completion the try statement holds while finally runs
\*   log:     the console.error lines
\*   events:  the client calls issued
createDataAfter(settled) ==
  IF settled.ev = "resolve"
    THEN [pending |-> Obj(("success" :> Bool(TRUE)) @@ ("data" :> settled.arg)),
          log |-> <<>>,
          events |-> <<Invoke("$disconnect", Undefined)>>]
    ELSE [pending |-> Obj(("success" :> Bool(FALSE))
                          @@ ("error" :> Str("Error creating data"))),
          log |-> <<"Error creating data:">>,
          events |-> <<Invoke("$disconnect", Undefined)>>]

batchCreateDataAfter(settled) ==
  IF settled.ev = "resolve"
    THEN [pending |-> Obj("success" :> Bool(TRUE)),
          log |-> <<>>,
          events |-> <<Invoke("$disconnect", Undefined)>>]
    ELSE [pending |-> Obj(("success" :> Bool(FALSE))
                          @@ ("error" :> Str("Error creating data"))),
          log |-> <<"Error creating users:">>,
          events |-> <<Invoke("$disconnect", Undefined)>>]

deleteDataAfter(settled) ==
  IF settled.ev = "resolve"
    THEN [pending |-> Obj("success" :> Bool(TRUE)),
          log |-> <<>>,
          events |-> <<Invoke("$disconnect", Undefined)>>]
    ELSE [pending |-> Obj(("success" :> Bool(FALSE))
                          @@ ("error" :> Str("Error deleting data"))),
          log |-> <<"Error deleting data:">>,
          events |-> <<Invoke("$disconnect", Undefined)>>]

updateFieldsAfter(settled) ==
  IF settled.ev = "resolve"
    THEN [pending |-> Obj("success" :> Bool(TRUE)),
          log |-> <<>>,
          events |-> <<Invoke("$disconnect", Undefined)>>]
    ELSE [pending |-> Obj("success" :> Bool(FALSE)),
          log |-> <<"error">>,
          events |-> <<Invoke("$disconnect", Undefined)>>]

afterStoreByOp(o, settled) ==
  CASE o = "createData" -> createDataAfter(settled)
    [] o = "batchCreateData" -> batchCreateDataAfter(settled)
    [] o = "deleteData" -> deleteDataAfter(settled)
    [] o = "updateFields" -> updateFieldsAfter(settled)

\* the disconnect moved from the finally block to the end of the try block
afterStoreDisconnectInTry(o, settled) ==
  IF settled.ev = "resolve"
    THEN afterStoreByOp(o, settled)
    ELSE [afterStoreByOp(o, settled) EXCEPT !.events = <<>>]

afterStore(o, settled) == afterStoreByOp(o, settled)

Payloads == {Obj("name" :> Str("x")), EmptyObj}
Ids == {Num(1), Str("id2")}

CallCreateData ==
  /\ pc = "idle"
  /\ \E data \in Payloads :
       /\ inp' = [data |-> data]
       /\ calls' = <<Invoke("create", Obj("data" :> data))>>
  /\ op' = "createData"
  /\ pc' = "awaitStore"
  /\ UNCHANGED <<local, logged, outcome>>

CallBatchCreateData ==
  /\ pc = "idle"
  /\ \E listData \in {Arr(<<>>), Arr(<<EmptyObj>>), Arr(<<EmptyObj, EmptyObj>>)} :
       /\ inp' = [listData |-> listData]
       /\ calls' = <<Invoke("createMany", Obj("data" :> listData))>>
  /\ op' = "batchCreateData"
  /\ pc' = "awaitStore"
  /\ UNCHANGED <<local, logged, outcome>>

CallDeleteData ==
  /\ pc = "idle"
  /\ \E id \in Ids :
       /\ inp' = [id |-> id]
       /\ calls' = <<Invoke("delete", Obj("where" :> Obj("id" :> id)))>>
  /\ op' = "deleteData"
  /\ pc' = "awaitStore"
  /\ UNCHANGED <<local, logged, outcome>>

CallUpdateFields ==
  /\ pc = "idle"
  /\ \E dataToUpdate \in Payloads, id \in Ids :
       /\ inp' = [dataToUpdate |-> dataToUpdate, id |-> id]
       /\ calls' = <<Invoke("updateMany",
                            Obj(("where" :> Obj("id" :> id))
                                @@ ("data" :> dataToUpdate)))>>
  /\ op' = "updateFields"
  /\ pc' = "awaitStore"
  /\ UNCHANGED <<local, logged, outcome>>

\* the store promise settles; the call runs on to the await of the finally
\* block (or, with no such await, to its end)
StoreSettles ==
  /\ pc = "awaitStore"
  /\ op \in MutatingOps
  /\ \E ok \in BOOLEAN :
       LET settled == Settled(ok, storeFn(op), IF op = "createData" THEN inp.data ELSE Undefined)
           after == afterStore(op, settled)
       IN /\ calls' = calls \o <<settled>> \o after.events
          /\ logged' = logged \o after.log
          /\ local' = [pending |-> after.pending]
          /\ IF after.events # <<>>
               THEN pc' = "awaitDisconnect" /\ outcome' = outcome
               ELSE pc' = "done" /\ outcome' = Returned(after.pending)
  /\ UNCHANGED <<op, inp>>

\* prisma.$disconnect() settles; a rejection replaces the pending completion
DisconnectSettles ==
  /\ pc = "awaitDisconnect"
  /\ \E ok \in BOOLEAN :
       /\ calls' = calls \o <<Settled(ok, "$disconnect", Undefined)>>
       /\ outcome' = IF ok THEN Returned(local.pending) ELSE Thrown(Err("$disconnect"))
  /\ pc' = "done"
  /\ UNCHANGED <<op, inp, local, logged>>

(***************************************************************************)
(* Inputs of the condition translation                                     *)
(***************************************************************************)
Fields == {"f", "g"}

ListOfLen(n) == Arr([i \in 1..n |-> Num(i)])

CondValues ==
  {Str("a"), Null}
    \cup {ListOfLen(n) : n \in 0..MaxListLen}
    \cup {Arr(<<Obj("country" :> Str("US"))>>)}

Entry(key, value) == [key |-> key, value |-> value]

\* condition maps over Fields, as the sequence of their properties
ConditionMaps ==
  {<<>>}
    \cup {<<Entry(key, v)>> : key \in Fields, v \in CondValues}
    \cup {<<Entry(p[1], v1), Entry(p[2], v2)>> :
            p \in {q \in Fields \X Fields : q[1] # q[2]},
            v1 \in CondValues, v2 \in CondValues}

Categories ==
  [rangeField : SUBSET Fields, ListField : SUBSET Fields,
   addressField : SUBSET Fields, logicAndListField : SUBSET Fields,
   searchField : SUBSET Fields]

NoCategories ==
  [rangeField |-> {}, ListField |-> {}, addressField |-> {},
   logicAndListField |-> {}, searchField |-> {}]

\* nested address filters: each key absent, null, empty or set
Absent == [k |-> "absent", u |-> 0]

AddressOf(c, p, ci, s) ==
  LET all == [country |-> c, province |-> p, city |-> ci, street |-> s]
  IN Obj([x \in {y \in DOMAIN all : all[y] # Absent} |-> all[x]])

AddressObjects ==
  {AddressOf(c, p, ci, s) :
     c \in {Absent, Null, Str(""), Str("US")},
     p \in {Absent, Null, Str(""), Str("CA")},
     ci \in {Absent, Str("SJ")},
     s \in {Absent, Str("x")}}

AddressElems == AddressObjects \cup {Null}

AddressInput(l) ==
  [conditions |-> <<Entry("f", Arr(l))>>,
   cats |-> [NoCategories EXCEPT !.addressField = {"f"}]]

translate(in) ==
  handleConditions(in.conditions, in.cats.rangeField, in.cats.ListField,
                   in.cats.addressField, in.cats.logicAndListField,
                   in.cats.searchField)

(***************************************************************************)
(* Calls of the synchronous methods, and of handleConditions, which awaits  *)
(* nothing                                                                 *)
(***************************************************************************)
CallGetPagination ==
  /\ pc = "idle"
  /\ \E pageNumber \in PageNumbers, pageSize \in PageSizes :
       /\ inp' = [pageNumber |-> pageNumber, pageSize |-> pageSize]
       /\ outcome' = Returned(getPagination(pageNumber, pageSize))
  /\ op' = "getPagination"
  /\ pc' = "done"
  /\ UNCHANGED <<local, calls, logged>>

Translated(in) ==
  /\ inp' = in
  /\ outcome' = translate(in)
  /\ op' = "handleConditions"
  /\ pc' = "done"
  /\ UNCHANGED <<local, calls, logged>>

\* a condition map over Fields with any category lists, or one address field
\* with a list of nested filters
CallHandleConditions ==
  /\ pc = "idle"
  /\ \/ \E c \in ConditionMaps, cats \in Categories :
          Translated([conditions |-> c, cats |-> cats])
     \/ \E n \in 0..MaxAddrLen : \E l \in [1..n -> AddressElems] :
          Translated(AddressInput(l))

ProjectKeys == {"a", "b"}
ListedKeys == {"a", "b", "c"}

ProjectValues ==
  {Absent, Undefined, Null, Num(7), Str("1970-01-01T00:00:01.000Z"),
   Str("not-a-date"), Obj("_seconds" :> Num(100))}

ProjectData ==
  {Null}
    \cup {Obj([x \in {y \in ProjectKeys : f[y] # Absent} |-> f[x]]) :
            f \in [ProjectKeys -> ProjectValues]}

FieldLists ==
  {[given |-> FALSE, set |-> {}]} \cup {[given |-> TRUE, set |-> S] : S \in SUBSET ListedKeys}

ProjectOptions ==
  {Undefined}
    \cup {[k |-> "options", dateFields |-> d, allFields |-> a] :
            d \in FieldLists, a \in FieldLists}

CallTransformData ==
  /\ pc = "idle"
  /\ \E data \in ProjectData, options \in ProjectOptions :
       /\ inp' = [data |-> data, options |-> options]
       /\ outcome' = Returned(transformData(data, options))
  /\ op' = "transformData"
  /\ pc' = "done"
  /\ UNCHANGED <<local, calls, logged>>

(***************************************************************************)
(* fetchDataWithPagination                                                 *)
(***************************************************************************)
OrderBy == Obj("id" :> Str("asc"))

FetchConditions ==
  {[conditions |-> <<>>, cats |-> NoCategories],
   [conditions |-> <<Entry("f", Str("a"))>>, cats |-> NoCategories],
   [conditions |-> <<Entry("f", ListOfLen(2))>>,
    cats |-> [NoCategories EXCEPT !.rangeField = {"f"}]],
   [conditions |-> <<Entry("f", Str("a"))>>,
    cats |-> [NoCategories EXCEPT !.addressField = {"f"}]]}

\* onDataProcess: not given, a transform, or a function that returns undefined
DataProcessors == {Undefined, Fn("transform"), Fn("returnsUndefined")}

\* onDataProcess?.(data) ?? data
processed(onDataProcess, data) ==
  LET r == IF onDataProcess.k \in {"undefined", "null"} THEN Undefined
           ELSE IF onDataProcess.name = "transform" THEN [k |-> "processed", data |-> data]
           ELSE Undefined
  IN IF r.k \in {"undefined", "null"} THEN data ELSE r

findManyArgs(query, orderByField, take, skip) ==
  Obj(("where" :> query) @@ ("orderBy" :> orderByField)
      @@ ("take" :> take) @@ ("skip" :> skip))

\* the count issued without the predicate
countArgsUnfiltered(query) == EmptyObj

countArgs(query) == Obj("where" :> query)

\* lines 49-58
envelope(data, totalCount, pageNumber, pageSize, onDataProcess) ==
  LET totalPages == CeilQuotient(totalCount, ToNumber(pageSize))
      result == processed(onDataProcess, data)
  IN Obj(("data" :> result) @@ ("total" :> totalCount)
         @@ ("totalPages" :> totalPages) @@ ("currentPage" :> pageNumber))

\* lines 31-40: up to the first await
CallFetchDataWithPagination ==
  /\ pc = "idle"
  /\ \E pageNumber \in PageNumbers, pageSize \in PageSizes,
        c \in FetchConditions, onDataProcess \in DataProcessors :
       /\ inp' = [pageNumber |-> pageNumber, pageSize |-> pageSize,
                  conditions |-> c.conditions, cats |-> c.cats,
                  orderByField |-> OrderBy, onDataProcess |-> onDataProcess]
       /\ LET p == getPagination(pageNumber, pageSize)
          IN local' = [take |-> p.take, skip |-> p.skip,
                       query |-> translate(c), data |-> Undefined]
  /\ op' = "fetchDataWithPagination"
  /\ pc' = "awaitConditions"
  /\ UNCHANGED <<calls, logged, outcome>>

\* line 33 resumes with a rejection: the call rejects
ConditionsRejected ==
  /\ pc = "awaitConditions"
  /\ local.query.kind = "thrown"
  /\ outcome' = Thrown(local.query.value)
  /\ pc' = "done"
  /\ UNCHANGED <<op, inp, local, calls, logged>>

\* line 33 resumes with the predicate; lines 41-46 issue the page query
IssueFindMany ==
  /\ pc = "awaitConditions"
  /\ local.query.kind = "returned"
  /\ calls' = calls \o <<Invoke("findMany",
                  findManyArgs(local.query.value, inp.orderByField, local.take, local.skip))>>
  /\ pc' = "awaitFindMany"
  /\ UNCHANGED <<op, inp, local, logged, outcome>>

\* line 41 resumes with the page; line 48 issues the count
FindManyResolves ==
  /\ pc = "awaitFindMany"
  /\ \E data \in {Arr(<<>>), Arr(<<Obj("id" :> Num(1))>>)} :
       /\ local' = [local EXCEPT !.data = data]
       /\ calls' = calls \o <<Resolve("findMany", data),
                              Invoke("count", countArgs(local.query.value))>>
  /\ pc' = "awaitCount"
  /\ UNCHANGED <<op, inp, logged, outcome>>

\* line 41 resumes with a rejection, which nothing catches
FindManyRejects ==
  /\ pc = "awaitFindMany"
  /\ calls' = calls \o <<Reject("findMany")>>
  /\ outcome' = Thrown(Err("findMany"))
  /\ pc' = "done"
  /\ UNCHANGED <<op, inp, local, logged>>

\* line 48 resumes with the count; lines 49-58 build the envelope
CountResolves ==
  /\ pc = "awaitCount"
  /\ \E total \in 0..MaxTotal :
       /\ calls' = calls \o <<Resolve("count", Num(total))>>
       /\ outcome' = Returned(envelope(local.data, Num(total), inp.pageNumber,
                                       inp.pageSize, inp.onDataProcess))
  /\ pc' = "done"
  /\ UNCHANGED <<op, inp, local, logged>>

CountRejects ==
  /\ pc = "awaitCount"
  /\ calls' = calls \o <<Reject("count")>>
  /\ outcome' = Thrown(Err("count"))
  /\ pc' = "done"
  /\ UNCHANGED <<op, inp, local, logged>>

(***************************************************************************)
(* The specification                                                       *)
(***************************************************************************)
Init ==
  /\ op = "idle"
  /\ pc = "idle"
  /\ inp = Undefined
  /\ local = Undefined
  /\ calls = <<>>
  /\ logged = <<>>
  /\ outcome = NoOutcome

Next ==
  \/ CallGetPagination
  \/ CallHandleConditions
  \/ CallTransformData
  \/ CallCreateData
  \/ CallBatchCreateData
  \/ CallDeleteData
  \/ CallUpdateFields
  \/ StoreSettles
  \/ DisconnectSettles
  \/ CallFetchDataWithPagination
  \/ ConditionsRejected
  \/ IssueFindMany
  \/ FindManyResolves
  \/ FindManyRejects
  \/ CountResolves
  \/ CountRejects

Spec == Init /\ [][Next]_vars

(***************************************************************************)
(* Properties                                                              *)
(***************************************************************************)
Invocations(fn) ==
  {i \in 1..Len(calls) : calls[i].ev = "invoke" /\ calls[i].fn = fn}

Settlements(fn) ==
  {i \in 1..Len(calls) : calls[i].ev \in {"resolve", "reject"} /\ calls[i].fn = fn}

Resolutions(fn) ==
  {i \in 1..Len(calls) : calls[i].ev = "resolve" /\ calls[i].fn = fn}

Rejections(fn) ==
  {i \in 1..Len(calls) : calls[i].ev = "reject" /\ calls[i].fn = fn}

\* C1: in every mutating call (createData, batchCreateData, deleteData,
\* updateFields), whether its store operation succeeds or fails,
\* prisma.$disconnect is invoked exactly once: not before the store operation
\* has settled, as soon as it has, and never a second time.
C1_ReleaseExactlyOnce ==
  op \in MutatingOps =>
    LET d == Invocations("$disconnect")
        s == Settlements(storeFn(op))
    IN /\ Cardinality(d) <= 1
       /\ \A i \in d : \E j \in s : j < i
       /\ (s # {} => Cardinality(d) = 1)
       /\ (pc = "done" => Cardinality(d) = 1)

\* a mutating call that ended after its store operation failed, with its one
\* disconnect after the failure
C1_Witness ==
  /\ op \in MutatingOps
  /\ pc = "done"
  /\ Rejections(storeFn(op)) # {}
  /\ Cardinality(Invocations("$disconnect")) = 1
  /\ \A i \in Invocations("$disconnect") : \A j \in Rejections(storeFn(op)) : j < i

\* C2: when the store operation of create, batch create, delete or update
\* fails, the call does not propagate that failure, and what it returns is
\* {success: false, error: <message>}.
C2_StoreFailureYieldsErrorResult ==
  (op \in MutatingOps /\ Rejections(storeFn(op)) # {}) =>
    /\ outcome.value # Err(storeFn(op))
    /\ outcome.kind = "returned" =>
         /\ Get(outcome.value, "success") = Bool(FALSE)
         /\ HasKey(outcome.value, "error")
         /\ Get(outcome.value, "error").k = "string"

\* C3: fetchDataWithPagination issues findMany and count each at most once,
\* the count only after findMany has resolved and with the same predicate; a
\* rejection of either rejects the call with that error (no envelope, no
\* {success: false}), and after a rejected findMany no count is issued.
C3_FetchQueriesSequentialUncaught ==
  op = "fetchDataWithPagination" =>
    LET fm == Invocations("findMany")
        ct == Invocations("count")
    IN /\ Cardinality(fm) <= 1
       /\ Cardinality(ct) <= 1
       /\ \A i \in ct : \E j \in Resolutions("findMany") : j < i
       /\ \A i \in ct : \A j \in fm :
            /\ HasKey(calls[i].arg, "where")
            /\ HasKey(calls[j].arg, "where")
            /\ Get(calls[i].arg, "where") = Get(calls[j].arg, "where")
       /\ (Rejections("findMany") # {} => ct = {})
       /\ \A fn \in {"findMany", "count"} :
            Rejections(fn) # {} => outcome = Thrown(Err(fn))
       /\ (outcome.kind = "returned" =>
             Resolutions("findMany") # {} /\ Resolutions("count") # {})

\* a fetch whose page query resolved and whose count query was rejected
C3_Witness ==
  /\ op = "fetchDataWithPagination"
  /\ pc = "done"
  /\ Resolutions("findMany") # {}
  /\ Rejections("count") # {}
  /\ outcome = Thrown(Err("count"))

IsList(value) == value.k = "array"

\* the rule the priority order of the specification picks
PriorityRule(key, value, cats) ==
  IF key \in cats.addressField THEN "address"
  ELSE IF key \in cats.rangeField /\ IsList(value) /\ Len(value.items) = 2 THEN "range"
  ELSE IF key \in cats.logicAndListField /\ IsList(value) THEN "hasEvery"
  ELSE IF key \in cats.ListField /\ IsList(value) THEN "hasSome"
  ELSE IF IsList(value) THEN "in"
  ELSE IF key \in cats.searchField THEN "contains"
  ELSE "equals"

\* the rule a clause of the predicate was built by
RuleOfClause(clause) ==
  IF DOMAIN clause.props = {"gte", "lte"} THEN "range"
  ELSE IF DOMAIN clause.props = {"hasEvery"} THEN "hasEvery"
  ELSE IF DOMAIN clause.props = {"hasSome"} THEN "hasSome"
  ELSE IF DOMAIN clause.props = {"in"} THEN "in"
  ELSE IF DOMAIN clause.props = {"contains"} THEN "contains"
  ELSE IF DOMAIN clause.props = {"equals"} THEN "equals"
  ELSE "other"

\* C4: for every field, value shape and membership in the five category
\* lists, the predicate handleConditions returns holds for that field the
\* clause of the first rule that matches in the order address, range (only
\* for a 2-element list), hasEvery, hasSome, in (any other list), contains
\* (scalar in a search field), equals.
C4_PriorityOrder ==
  (op = "handleConditions" /\ outcome.kind = "returned") =>
    \A i \in 1..Len(inp.conditions) :
      LET key == inp.conditions[i].key
          value == inp.conditions[i].value
          rule == PriorityRule(key, value, inp.cats)
      IN IF rule = "address"
           THEN HasKey(outcome.value, "OR")
           ELSE /\ HasKey(outcome.value, key)
                /\ RuleOfClause(Get(outcome.value, key)) = rule

\* C5: a field of RangeFields (and no address field) whose value is a list of
\* a length other than 2 makes the translation fail; no predicate is returned.
C5_MalformedRangeFails ==
  (/\ op = "handleConditions"
   /\ \E i \in 1..Len(inp.conditions) :
        /\ inp.conditions[i].key \in inp.cats.rangeField \ inp.cats.addressField
        /\ IsList(inp.conditions[i].value)
        /\ Len(inp.conditions[i].value.items) # 2)
    => outcome.kind = "thrown"

\* C6: with a page size of 0 or below, fetchDataWithPagination raises: it
\* returns no envelope, and it issues no page query with a limit of 0 or below.
C6_NonPositivePageSizeRaises ==
  (/\ op = "fetchDataWithPagination"
   /\ inp.pageSize.k = "number"
   /\ inp.pageSize.n <= 0)
    => /\ \A i \in Invocations("findMany") : Get(calls[i].arg, "take").n > 0
       /\ outcome.kind # "returned"
       /\ (pc = "done" => outcome.kind = "thrown")

\* C7: the envelope reports the pagination the query used: currentPage is the
\* page number and totalPages is ceil(total / page size) with the defaults
\* applied (1 and 20 for a falsy input), the values the offset and the limit
\* of the page query were computed from.
C7_EnvelopeReportsEffectivePagination ==
  (op = "fetchDataWithPagination" /\ outcome.kind = "returned") =>
    LET N == IF inp.pageNumber \in {Num(0), Null, Undefined} THEN Num(1) ELSE inp.pageNumber
        P == IF inp.pageSize \in {Num(0), Null, Undefined} THEN Num(20) ELSE inp.pageSize
    IN /\ \A i \in Invocations("findMany") :
            /\ Get(calls[i].arg, "take") = P
            /\ Get(calls[i].arg, "skip") = Num((N.n - 1) * P.n)
       /\ Get(outcome.value, "currentPage") = N
       /\ Get(outcome.value, "totalPages") = CeilQuotient(Get(outcome.value, "total"), P)

\* C8: getPagination returns take = P and skip = (N - 1) * P, where N is the
\* page number, or 1 when that is 0, null or undefined, and P is the page
\* size, or 20 when that is 0, null or undefined; (2, 10) gives skip 10 and
\* take 10, and from page 1 and size 1 up the skip is never negative.
C8_PaginationArithmetic ==
  op = "getPagination" =>
    LET N == IF inp.pageNumber \in {Num(0), Null, Undefined} THEN 1 ELSE inp.pageNumber.n
        P == IF inp.pageSize \in {Num(0), Null, Undefined} THEN 20 ELSE inp.pageSize.n
    IN /\ outcome.kind = "returned"
       /\ outcome.value.take = Num(P)
       /\ outcome.value.skip = Num((N - 1) * P)
       /\ ((inp.pageNumber = Num(2) /\ inp.pageSize = Num(10)) =>
             outcome.value = [take |-> Num(10), skip |-> Num(10)])
       /\ ((/\ inp.pageNumber.k = "number" /\ inp.pageNumber.n >= 1
            /\ inp.pageSize.k = "number" /\ inp.pageSize.n >= 1) =>
             outcome.value.skip.n >= 0)

\* getPagination(2, 10) has returned skip 10, take 10
C8_Witness ==
  /\ op = "getPagination"
  /\ inp.pageNumber = Num(2)
  /\ inp.pageSize = Num(10)
  /\ outcome = Returned([take |-> Num(10), skip |-> Num(10)])

\* the address entry of inp.conditions whose list where.OR holds: the last one
IsDecidingAddressEntry(i) ==
  /\ inp.conditions[i].key \in inp.cats.addressField
  /\ \A j \in (i + 1)..Len(inp.conditions) :
       inp.conditions[j].key \notin inp.cats.addressField
  /\ IsList(inp.conditions[i].value)
  /\ \A n \in 1..Len(inp.conditions[i].value.items) :
       inp.conditions[i].value.items[n].k = "object"

NonNullKeys(param) == {x \in DOMAIN param.props : param.props[x] # Null}

Stripped(param) == Obj([x \in NonNullKeys(param) |-> param.props[x]])

CountryPathClause(key, param) ==
  Obj(key :> Obj([x \in {"path", "equals"} |->
                    IF x = "path" THEN Arr(<<Str("country")>>) ELSE param.props["country"]]))

\* the sub-clause as the claim has it: path [country] exactly when country is
\* the only key left after the null-valued keys are stripped
ClaimedAddressClause(key, param) ==
  IF NonNullKeys(param) = {"country"}
    THEN CountryPathClause(key, param)
    ELSE Obj(key :> Obj("equals" :> Stripped(param)))

\* a key that is present with a value that is not null, undefined, "", 0, NaN
\* or false
Set(param, x) ==
  /\ x \in DOMAIN param.props
  /\ param.props[x] \notin {Null, Undefined, Str(""), Num(0), NaN, Bool(FALSE)}

\* the sub-clause as amended: path [country] exactly when country is set and
\* neither province nor city is
AmendedAddressClause(key, param) ==
  IF Set(param, "country") /\ ~Set(param, "province") /\ ~Set(param, "city")
    THEN CountryPathClause(key, param)
    ELSE Obj(key :> Obj("equals" :> Stripped(param)))

\* C9 as claimed: for an address field whose value is a list of nested filter
\* objects, the OR-list has one sub-clause per object, in order: a
\* nested-path-equals on [country] if and only if country is the only key
\* left after stripping null-valued keys, else an equals on the stripped object.
C9_AsClaimed ==
  (op = "handleConditions" /\ outcome.kind = "returned") =>
    \A i \in 1..Len(inp.conditions) :
      IsDecidingAddressEntry(i) =>
        Get(outcome.value, "OR") =
          Arr([n \in 1..Len(inp.conditions[i].value.items) |->
                 ClaimedAddressClause(inp.conditions[i].key,
                                      inp.conditions[i].value.items[n])])

\* C9 as amended: for an address field whose value is a list of nested filter
\* objects, the OR-list has one sub-clause per object, in order: a
\* nested-path-equals on [country] if and only if the object's country is
\* set (truthy) and its province and city are not, whatever other keys it
\* has; else an equals on the object stripped of its null-valued keys.
C9_AddressClauses ==
  (op = "handleConditions" /\ outcome.kind = "returned") =>
    \A i \in 1..Len(inp.conditions) :
      IsDecidingAddressEntry(i) =>
        Get(outcome.value, "OR") =
          Arr([n \in 1..Len(inp.conditions[i].value.items) |->
                 AmendedAddressClause(inp.conditions[i].key,
                                      inp.conditions[i].value.items[n])])

\* {country: "US", street: "x"} and {country: "US", city: "SJ"} translated:
\* the first to the path clause in spite of its street, the second to equals
C9_Witness ==
  /\ op = "handleConditions"
  /\ inp = AddressInput(<<AddressOf(Str("US"), Absent, Absent, Str("x")),
                          AddressOf(Str("US"), Absent, Str("SJ"), Absent)>>)
  /\ outcome.kind = "returned"
  /\ Get(outcome.value, "OR") =
       Arr(<<Obj("f" :> Obj(("path" :> Arr(<<Str("country")>>))
                            @@ ("equals" :> Str("US")))),
             Obj("f" :> Obj("equals" :>
                              Obj(("country" :> Str("US")) @@ ("city" :> Str("SJ")))))>>)

\* C10: every key of the object transformData returns is in allowedFields,
\* was a key of the input with a value other than null and undefined, and, if
\* it is in dateFields, holds toSQLDateTime of its input value.
C10_ProjectionKeepsAllowedNonNull ==
  op = "transformData" =>
    LET data == IF inp.data.k = "object" THEN inp.data ELSE EmptyObj
        allowedFields == IF inp.options.k = "options" /\ inp.options.allFields.given
                           THEN inp.options.allFields.set ELSE {}
        dateFields == IF inp.options.k = "options" /\ inp.options.dateFields.given
                        THEN inp.options.dateFields.set ELSE {}
        result == outcome.value
    IN /\ outcome.kind = "returned"
       /\ result.k = "object"
       /\ \A key \in DOMAIN result.props :
            /\ key \in allowedFields
            /\ key \in DOMAIN data.props
            /\ data.props[key] \notin {Null, Undefined}
            /\ key \in dateFields => result.props[key] = toSQLDateTime(data.props[key])
            /\ key \notin dateFields => result.props[key] = data.props[key]

=============================================================================
